---- MODULE Spec2Model ----
\* A model of src/main.py: the keyword -> genre pipeline behind GET /recommend
\* and GET /search, and the user-store handlers (create_user, get_user,
\* add_favorite, add_watch_history) running as interleaved coroutines over one
\* MongoDB collection.
EXTENDS Integers, Sequences, FiniteSets, TLC

\* ---------------------------------------------------------------- bounds

\* longest tagged document handed to a handler
MaxTokens == 2
\* number of coroutines that can be in flight on the store at once
NumProcs == 2
\* total number of store calls begun in one behaviour
MaxCalls == 3

\* ------------------------------------------------- the tagger's vocabulary

\* Token texts the tagger may return: lexicon keys, two keys with one label,
\* capitalised spellings of keys, and a word the lexicon does not know.
Words == {"action", "science", "fiction", "Action", "FANTASY", "xyzzy"}

\* token.pos_ as the handlers see it: ADJ, NOUN, or anything else
PosTags == {"ADJ", "NOUN", "OTHER"}

Tokens == [text : Words, pos : PosTags]

\* nlp(user_input): every tagged document of at most MaxTokens tokens
Docs == UNION {[1..n -> Tokens] : n \in 0..MaxTokens}

\* ------------------------------------------------------------ the lexicon

GENRE_MAPPING ==
    [k \in {"action", "adventure", "comedy", "drama", "fantasy", "horror",
            "romance", "scifi", "science", "fiction", "slice", "life", "sports",
            "thriller", "mystery", "psychological", "supernatural", "magic"} |->
        CASE k = "action" -> "Action"
          [] k = "adventure" -> "Adventure"
          [] k = "comedy" -> "Comedy"
          [] k = "drama" -> "Drama"
          [] k = "fantasy" -> "Fantasy"
          [] k = "horror" -> "Horror"
          [] k = "romance" -> "Romance"
          [] k = "scifi" -> "Sci-Fi"
          [] k = "science" -> "Sci-Fi"
          [] k = "fiction" -> "Sci-Fi"
          [] k = "slice" -> "Slice of Life"
          [] k = "life" -> "Slice of Life"
          [] k = "sports" -> "Sports"
          [] k = "thriller" -> "Thriller"
          [] k = "mystery" -> "Mystery"
          [] k = "psychological" -> "Psychological"
          [] k = "supernatural" -> "Supernatural"
          [] k = "magic" -> "Magic"]

\* ------------------------------------------------------ extract_keywords

IsAdj(token) == token.pos = "ADJ"

IsNoun(token) == token.pos = "NOUN"

TokenTexts(tokens) == [i \in 1..Len(tokens) |-> tokens[i].text]

\* extract_keywords(user_input): (adjectives, nouns), each token.text as the
\* tagger spelled it, in document order
extract_keywords(doc) ==
    [adjectives |-> TokenTexts(SelectSeq(doc, IsAdj)),
     nouns      |-> TokenTexts(SelectSeq(doc, IsNoun))]

\* --------------------------------------------------------- map_to_genres

RECURSIVE MatchedGenres(_)
\* the loop of map_to_genres: one label per keyword that is a lexicon key
MatchedGenres(keywords) ==
    IF keywords = <<>> THEN <<>>
    ELSE LET keyword == Head(keywords)
             rest == MatchedGenres(Tail(keywords))
         IN  IF keyword \in DOMAIN GENRE_MAPPING
             THEN <<GENRE_MAPPING[keyword]>> \o rest
             ELSE rest

DefaultGenres == <<"Action", "Adventure">>

\* map_to_genres without its `if not genres` fallback
map_to_genres_no_fallback(keywords) == MatchedGenres(keywords)

\* map_to_genres testing `if not keywords` where the code tests `if not genres`
map_to_genres_empty_input_only(keywords) ==
    IF keywords = <<>> THEN DefaultGenres ELSE MatchedGenres(keywords)

map_to_genres(keywords) ==
    LET genres == MatchedGenres(keywords)
    IN  IF genres = <<>> THEN DefaultGenres ELSE genres

\* ------------------------------------------------------------ " ".join

RECURSIVE Join(_, _)
\* sep.join(strs)
Join(sep, strs) ==
    IF strs = <<>> THEN ""
    ELSE IF Len(strs) = 1 THEN strs[1]
    ELSE strs[1] \o sep \o Join(sep, Tail(strs))

\* ------------------------------------------------ provider responses (JSON)

\* response.json(): a JSON value is null, an object (a function on its keys)
\* or an array
JNull == [t |-> "null"]

JObj(fields) == [t |-> "obj", f |-> fields]

JArr(items) == [t |-> "arr", v |-> items]

NoFields == [k \in {} |-> JNull]

\* one media record as the GraphQL queries select it
MediaItem ==
    [title |-> [romaji |-> "Shingeki no Kyojin", english |-> "Attack on Titan"],
     description |-> "d1",
     genres |-> <<"Action", "Drama">>,
     coverImage |-> [large |-> "cover1"],
     siteUrl |-> "url1",
     averageScore |-> "84"]

\* Bodies the provider can answer with: the full data/Page/media structure
\* (with some, no or null media) and every way of cutting it short, down to
\* a body that is itself null or an empty array.
Bodies ==
    {JNull,
     JArr(<<>>),
     JObj(NoFields),
     JObj([data |-> JNull]),
     JObj([data |-> JObj(NoFields)]),
     JObj([data |-> JObj([Page |-> JNull])]),
     JObj([data |-> JObj([Page |-> JObj(NoFields)])]),
     JObj([data |-> JObj([Page |-> JObj([media |-> JNull])])]),
     JObj([data |-> JObj([Page |-> JObj([media |-> JArr(<<>>)])])]),
     JObj([data |-> JObj([Page |-> JObj([media |-> JArr(<<MediaItem>>)])])])}

\* what client.post can return: a 200 with any body, or an error status with
\* an error body
Responses ==
    {[status_code |-> 200, body |-> b] : b \in Bodies}
        \cup {[status_code |-> 500, body |-> b] :
                b \in {JObj(NoFields), JObj([data |-> JNull])}}

\* Python's `key in value`: key membership for a dict, element membership for
\* a list (no element here is a string); for None it raises TypeError
SupportsIn(value) == value.t # "null"

In(key, value) == value.t = "obj" /\ key \in DOMAIN value.f

Returned(value) == [raised |-> "none", value |-> value]

Raised(exception) == [raised |-> exception, value |-> JNull]

\* the body of `async with httpx.AsyncClient()` once the response is there:
\* the media list, [] when the status or the shape is off, or the exception
\* the `in` chain raises
page_media(response) ==
    IF response.status_code = 200
    THEN LET data == response.body
         IN  IF ~SupportsIn(data) THEN Raised("TypeError")
             ELSE IF ~In("data", data) THEN Returned(JArr(<<>>))
             ELSE IF ~SupportsIn(data.f["data"]) THEN Raised("TypeError")
             ELSE IF ~In("Page", data.f["data"]) THEN Returned(JArr(<<>>))
             ELSE IF ~SupportsIn(data.f["data"].f["Page"]) THEN Raised("TypeError")
             ELSE IF ~In("media", data.f["data"].f["Page"]) THEN Returned(JArr(<<>>))
             ELSE Returned(data.f["data"].f["Page"].f["media"])
    ELSE Returned(JArr(<<>>))

RecommendPerPage == 10

SearchPerPage == 5

\* the variables fetch_anime_recommendations posts
recommend_variables(genre) ==
    [kind |-> "recommend", genres |-> genre, search |-> "", perPage |-> RecommendPerPage]

\* the variables fetch_anime_search posts
search_variables(query) ==
    [kind |-> "search", genres |-> <<>>, search |-> query, perPage |-> SearchPerPage]

fetch_anime_recommendations(response) == page_media(response)

fetch_anime_search(response) == page_media(response)

\* `if anime_list:` -- a non-empty list is truthy, [] and None are not
Truthy(value) ==
    CASE value.t = "arr" -> value.v # <<>>
      [] value.t = "obj" -> DOMAIN value.f # {}
      [] OTHER -> FALSE

\* the list comprehension both handlers return
summaries(anime_list) ==
    [i \in 1..Len(anime_list) |->
        [title |-> anime_list[i].title.romaji,
         description |-> anime_list[i].description,
         genres |-> anime_list[i].genres,
         coverImage |-> anime_list[i].coverImage.large,
         siteUrl |-> anime_list[i].siteUrl]]

\* what the HTTP caller gets: the handler's return value, its HTTPException,
\* or the 500 the framework makes of any other exception
http_outcome(fetched, not_found_detail) ==
    IF fetched.raised # "none"
    THEN [status |-> 500, detail |-> fetched.raised, items |-> <<>>]
    ELSE IF Truthy(fetched.value)
    THEN [status |-> 200, detail |-> "", items |-> summaries(fetched.value.v)]
    ELSE [status |-> 404, detail |-> not_found_detail, items |-> <<>>]

\* ------------------------------------------------- the users collection

Usernames == {"alice", "bob"}

Emails == {"a@example.org", "b@example.org"}

\* the request bodies FavoriteAnime / WatchHistory
Animes == {[anime_id |-> "1", title |-> "Naruto"], [anime_id |-> "20", title |-> "Bleach"]}

\* what datetime.utcnow().isoformat() can read
Times == {"2024-01-01T00:00:00", "2024-01-01T00:00:01"}

Procs == 1..NumProcs

\* the request bodies UserCreate (preferences left at its default)
UserCreates == [username : Usernames, email : Emails, preferences : {<<>>}]

NoDoc ==
    [username |-> "", email |-> "", preferences |-> <<>>,
     watch_history |-> <<>>, favorites |-> <<>>]

\* position of the first document with this username, 0 when there is none
FirstIndex(coll, username) ==
    IF \E i \in 1..Len(coll) : coll[i].username = username
    THEN CHOOSE i \in 1..Len(coll) :
            /\ coll[i].username = username
            /\ \A j \in 1..(i - 1) : coll[j].username # username
    ELSE 0

\* users_collection.find_one({"username": username}): the first match or None
find_one(coll, username) ==
    LET i == FirstIndex(coll, username)
    IN  IF i = 0 THEN [found |-> FALSE, doc |-> NoDoc]
        ELSE [found |-> TRUE, doc |-> coll[i]]

\* users_collection.insert_one(document)
insert_one(coll, document) == Append(coll, document)

\* update_one pushing at the front of the array ($position 0)
update_one_push_front(coll, username, field, entry) ==
    LET i == FirstIndex(coll, username)
    IN  IF i = 0 THEN coll
        ELSE [coll EXCEPT ![i] = [@ EXCEPT ![field] = <<entry>> \o @]]

\* update_one with $set where the code has $push
update_one_set(coll, username, field, entry) ==
    LET i == FirstIndex(coll, username)
    IN  IF i = 0 THEN coll
        ELSE [coll EXCEPT ![i] = [@ EXCEPT ![field] = <<entry>>]]

\* users_collection.update_one({"username": username}, {"$push": {field: entry}}):
\* appends to the array of the first match, does nothing when nothing matches
update_one_push(coll, username, field, entry) ==
    LET i == FirstIndex(coll, username)
    IN  IF i = 0 THEN coll
        ELSE [coll EXCEPT ![i] = [@ EXCEPT ![field] = Append(@, entry)]]

\* the document create_user builds
user_data(user) ==
    [username |-> user.username,
     email |-> user.email,
     preferences |-> user.preferences,
     watch_history |-> <<>>,
     favorites |-> <<>>]

\* the entry add_favorite builds
anime_entry(anime, now) ==
    [anime_id |-> anime.anime_id, title |-> anime.title, added_at |-> now]

\* the entry add_watch_history builds
history_entry(anime, now) ==
    [anime_id |-> anime.anime_id, title |-> anime.title, watched_at |-> now]

\* ------------------------------------------------------------------ state

VARIABLES
    doc,        \* the tagged document of the /recommend or /search request
    rpc,        \* where that handler is: idle, awaiting the provider, done
    request,    \* the variables it posted to the provider
    response,   \* the provider's answer
    result,     \* what the handler answered
    users,      \* users_collection, in insertion order
    pc,         \* per coroutine: idle, or the store call it is suspended before
    call,       \* per coroutine: the arguments of the handler in flight
    resp,       \* per coroutine: what its last handler answered
    ncalls,     \* handlers begun so far
    favLog,     \* history: per username, the entries of the add_favorite calls
                \* whose update_one has run (each then answers success), in
                \* that order
    existed     \* history: per coroutine, whether the username had a record
                \* when its latest add_favorite was called

qvars == <<doc, rpc, request, response, result>>

svars == <<users, pc, call, resp, ncalls, favLog, existed>>

vars == <<doc, rpc, request, response, result, users, pc, call, resp, ncalls, favLog, existed>>

NoRequest == [kind |-> "none", genres |-> <<>>, search |-> "", perPage |-> 0]

NoResponse == [status_code |-> 0, body |-> JNull]

NoResult == [status |-> 0, detail |-> "", items |-> <<>>]

NoCall == [op |-> "none", username |-> "", item |-> NoDoc]

NoResp == [op |-> "none", username |-> "", status |-> 0, detail |-> "", body |-> NoDoc]

QueryInit ==
    /\ doc = <<>>
    /\ rpc = "idle"
    /\ request = NoRequest
    /\ response = NoResponse
    /\ result = NoResult

StoreInit ==
    /\ users = <<>>
    /\ pc = [p \in Procs |-> "idle"]
    /\ call = [p \in Procs |-> NoCall]
    /\ resp = [p \in Procs |-> NoResp]
    /\ ncalls = 0
    /\ favLog = [u \in Usernames |-> <<>>]
    /\ existed = [p \in Procs |-> FALSE]

Init == QueryInit /\ StoreInit

\* -------------------------------------------------- GET /recommend, /search

\* get_recommendations concatenating nouns + adjectives
get_recommendations_call_nouns_first(d) ==
    /\ rpc = "idle"
    /\ LET kw == extract_keywords(d)
           all_keywords == kw.nouns \o kw.adjectives
           mapped_genres == map_to_genres(all_keywords)
       IN  request' = recommend_variables(mapped_genres)
    /\ doc' = d
    /\ rpc' = "recommend_await"
    /\ UNCHANGED <<response, result>>
    /\ UNCHANGED svars

\* get_recommendations up to its await: extract, concatenate, map, post
get_recommendations_call(d) ==
    /\ rpc = "idle"
    /\ LET kw == extract_keywords(d)
           all_keywords == kw.adjectives \o kw.nouns
           mapped_genres == map_to_genres(all_keywords)
       IN  request' = recommend_variables(mapped_genres)
    /\ doc' = d
    /\ rpc' = "recommend_await"
    /\ UNCHANGED <<response, result>>
    /\ UNCHANGED svars

\* get_recommendations from the provider's answer to its own
get_recommendations_return(r) ==
    /\ rpc = "recommend_await"
    /\ response' = r
    /\ result' = http_outcome(fetch_anime_recommendations(r), "No recommendations found")
    /\ rpc' = "done"
    /\ UNCHANGED <<doc, request>>
    /\ UNCHANGED svars

\* search_anime joining adjectives and nouns, as get_recommendations does
search_anime_call_all_keywords(d) ==
    /\ rpc = "idle"
    /\ LET kw == extract_keywords(d)
           search_query == Join(" ", kw.adjectives \o kw.nouns)
       IN  request' = search_variables(search_query)
    /\ doc' = d
    /\ rpc' = "search_await"
    /\ UNCHANGED <<response, result>>
    /\ UNCHANGED svars

\* search_anime up to its await: extract, join the nouns, post
search_anime_call(d) ==
    /\ rpc = "idle"
    /\ LET kw == extract_keywords(d)
           search_query == Join(" ", kw.nouns)
       IN  request' = search_variables(search_query)
    /\ doc' = d
    /\ rpc' = "search_await"
    /\ UNCHANGED <<response, result>>
    /\ UNCHANGED svars

\* search_anime from the provider's answer to its own
search_anime_return(r) ==
    /\ rpc = "search_await"
    /\ response' = r
    /\ result' = http_outcome(fetch_anime_search(r), "No anime found matching that query")
    /\ rpc' = "done"
    /\ UNCHANGED <<doc, request>>
    /\ UNCHANGED svars

QueryNext ==
    \/ \E d \in Docs : get_recommendations_call(d)
    \/ \E r \in Responses : get_recommendations_return(r)
    \/ \E d \in Docs : search_anime_call(d)
    \/ \E r \in Responses : search_anime_return(r)

QuerySpec == Init /\ [][QueryNext]_vars

\* ------------------------------------------------------- the user handlers

Answer(op, username, status, detail, body) ==
    [op |-> op, username |-> username, status |-> status, detail |-> detail, body |-> body]

\* create_user up to its second await: find_one, then 400 or the document
create_user_find(p, user) ==
    /\ pc[p] = "idle"
    /\ ncalls < MaxCalls
    /\ ncalls' = ncalls + 1
    /\ LET existing_user == find_one(users, user.username)
       IN  IF existing_user.found
           THEN /\ resp' = [resp EXCEPT ![p] =
                        Answer("create_user", user.username, 400, "Username already exists", NoDoc)]
                /\ UNCHANGED <<pc, call>>
           ELSE /\ pc' = [pc EXCEPT ![p] = "create_insert"]
                /\ call' = [call EXCEPT ![p] =
                        [op |-> "create_user", username |-> user.username, item |-> user_data(user)]]
                /\ UNCHANGED resp
    /\ UNCHANGED <<users, favLog, existed>>
    /\ UNCHANGED qvars

\* create_user from insert_one to its return
create_user_insert(p) ==
    /\ pc[p] = "create_insert"
    /\ users' = insert_one(users, call[p].item)
    /\ resp' = [resp EXCEPT ![p] =
            Answer("create_user", call[p].username, 200, "User created successfully", NoDoc)]
    /\ pc' = [pc EXCEPT ![p] = "idle"]
    /\ call' = [call EXCEPT ![p] = NoCall]
    /\ UNCHANGED <<ncalls, favLog, existed>>
    /\ UNCHANGED qvars

\* get_user: one find_one, then the profile or 404
get_user(p, username) ==
    /\ pc[p] = "idle"
    /\ ncalls < MaxCalls
    /\ ncalls' = ncalls + 1
    /\ LET user == find_one(users, username)
       IN  resp' = [resp EXCEPT ![p] =
                IF user.found
                THEN Answer("get_user", username, 200, "", user.doc)
                ELSE Answer("get_user", username, 404, "User not found", NoDoc)]
    /\ UNCHANGED <<users, pc, call, favLog, existed>>
    /\ UNCHANGED qvars

\* add_favorite that creates the missing profile (an upsert) before its 404
add_favorite_find_upsert(p, username, anime) ==
    /\ pc[p] = "idle"
    /\ ncalls < MaxCalls
    /\ ncalls' = ncalls + 1
    /\ LET user == find_one(users, username)
       IN  /\ IF ~user.found
              THEN /\ resp' = [resp EXCEPT ![p] =
                           Answer("add_favorite", username, 404, "User not found", NoDoc)]
                   /\ users' = insert_one(users, [NoDoc EXCEPT !.username = username])
                   /\ UNCHANGED <<pc, call>>
              ELSE /\ pc' = [pc EXCEPT ![p] = "favorite_update"]
                   /\ call' = [call EXCEPT ![p] =
                           [op |-> "add_favorite", username |-> username, item |-> anime]]
                   /\ UNCHANGED <<resp, users>>
           /\ existed' = [existed EXCEPT ![p] = user.found]
    /\ UNCHANGED favLog
    /\ UNCHANGED qvars

\* add_favorite up to its second await: find_one, then 404 or go on
add_favorite_find(p, username, anime) ==
    /\ pc[p] = "idle"
    /\ ncalls < MaxCalls
    /\ ncalls' = ncalls + 1
    /\ LET user == find_one(users, username)
       IN  /\ IF ~user.found
              THEN /\ resp' = [resp EXCEPT ![p] =
                           Answer("add_favorite", username, 404, "User not found", NoDoc)]
                   /\ UNCHANGED <<pc, call>>
              ELSE /\ pc' = [pc EXCEPT ![p] = "favorite_update"]
                   /\ call' = [call EXCEPT ![p] =
                           [op |-> "add_favorite", username |-> username, item |-> anime]]
                   /\ UNCHANGED resp
           /\ existed' = [existed EXCEPT ![p] = user.found]
    /\ UNCHANGED <<users, favLog>>
    /\ UNCHANGED qvars

\* add_favorite from building the entry through update_one to its return
add_favorite_update(p, now) ==
    /\ pc[p] = "favorite_update"
    /\ LET entry == anime_entry(call[p].item, now)
       IN  /\ users' = update_one_push(users, call[p].username, "favorites", entry)
           /\ favLog' = [favLog EXCEPT ![call[p].username] = Append(@, entry)]
    /\ resp' = [resp EXCEPT ![p] =
            Answer("add_favorite", call[p].username, 200, "Anime added to favorites", NoDoc)]
    /\ pc' = [pc EXCEPT ![p] = "idle"]
    /\ call' = [call EXCEPT ![p] = NoCall]
    /\ UNCHANGED <<ncalls, existed>>
    /\ UNCHANGED qvars

\* add_watch_history up to its second await
add_watch_history_find(p, username, anime) ==
    /\ pc[p] = "idle"
    /\ ncalls < MaxCalls
    /\ ncalls' = ncalls + 1
    /\ LET user == find_one(users, username)
       IN  IF ~user.found
           THEN /\ resp' = [resp EXCEPT ![p] =
                        Answer("add_watch_history", username, 404, "User not found", NoDoc)]
                /\ UNCHANGED <<pc, call>>
           ELSE /\ pc' = [pc EXCEPT ![p] = "history_update"]
                /\ call' = [call EXCEPT ![p] =
                        [op |-> "add_watch_history", username |-> username, item |-> anime]]
                /\ UNCHANGED resp
    /\ UNCHANGED <<users, favLog, existed>>
    /\ UNCHANGED qvars

\* add_watch_history from building the entry through update_one to its return
add_watch_history_update(p, now) ==
    /\ pc[p] = "history_update"
    /\ users' = update_one_push(users, call[p].username, "watch_history",
                                history_entry(call[p].item, now))
    /\ resp' = [resp EXCEPT ![p] =
            Answer("add_watch_history", call[p].username, 200, "Anime added to watch history", NoDoc)]
    /\ pc' = [pc EXCEPT ![p] = "idle"]
    /\ call' = [call EXCEPT ![p] = NoCall]
    /\ UNCHANGED <<ncalls, favLog, existed>>
    /\ UNCHANGED qvars

StoreNext ==
    \/ \E p \in Procs, user \in UserCreates : create_user_find(p, user)
    \/ \E p \in Procs : create_user_insert(p)
    \/ \E p \in Procs, username \in Usernames : get_user(p, username)
    \/ \E p \in Procs, username \in Usernames, anime \in Animes :
            add_favorite_find(p, username, anime)
    \/ \E p \in Procs, now \in Times : add_favorite_update(p, now)
    \/ \E p \in Procs, username \in Usernames, anime \in Animes :
            add_watch_history_find(p, username, anime)
    \/ \E p \in Procs, now \in Times : add_watch_history_update(p, now)

StoreSpec == Init /\ [][StoreNext]_vars

Next == QueryNext \/ StoreNext

Spec == Init /\ [][Next]_vars

\* ----------------------------------------------------------- properties

IsPrefix(s, t) == Len(s) <= Len(t) /\ SubSeq(t, 1, Len(s)) = s

\* the keywords get_recommendations resolves: the ADJ and NOUN tokens
IsKeyword(token) == token.pos \in {"ADJ", "NOUN"}

IsKey(token) == token.text \in DOMAIN GENRE_MAPPING

IsAdjKey(token) == IsAdj(token) /\ IsKey(token)

IsNounKey(token) == IsNoun(token) /\ IsKey(token)

LabelsOf(tokens) == [i \in 1..Len(tokens) |-> GENRE_MAPPING[tokens[i].text]]

\* str.lower() on the tagger's vocabulary
Lower(word) ==
    CASE word = "Action" -> "action"
      [] word = "FANTASY" -> "fantasy"
      [] OTHER -> word

RECURSIVE NounPhrase(_)
\* the nouns of a document, left to right, one space between neighbours
NounPhrase(d) ==
    IF d = <<>> THEN ""
    ELSE LET front == NounPhrase(SubSeq(d, 1, Len(d) - 1))
             last == d[Len(d)]
         IN  IF last.pos # "NOUN" THEN front
             ELSE IF front = "" THEN last.text
             ELSE front \o " " \o last.text

Posted == request.kind \in {"recommend", "search"}

\* C1: the genre list get_recommendations hands to
\* fetch_anime_recommendations is never empty, whatever the tagger returned.
C1_GenresNeverEmpty == request.kind = "recommend" => request.genres # <<>>

\* C1 witness: a recommend request posted for a text with no adjective and no noun
C1_Witness ==
    /\ request.kind = "recommend"
    /\ doc # <<>>
    /\ \A i \in 1..Len(doc) : ~IsKeyword(doc[i])

\* C2: when no keyword is a lexicon key, the resolved genres are exactly
\* <<"Action", "Adventure">>.
C2_DefaultWhenNoMatch ==
    (request.kind = "recommend" /\ \A i \in 1..Len(doc) : IsKeyword(doc[i]) => ~IsKey(doc[i]))
        => request.genres = <<"Action", "Adventure">>

\* C2 witness: the unknown noun "xyzzy" alone was resolved
C2_Witness ==
    /\ request.kind = "recommend"
    /\ doc = <<[text |-> "xyzzy", pos |-> "NOUN"]>>

\* C3: when some keyword matches, the resolved genres are the labels of the
\* matching adjectives in input order followed by the labels of the matching
\* nouns in input order, one per occurrence, duplicates kept.
C3_LabelsInOrder ==
    (request.kind = "recommend" /\ \E i \in 1..Len(doc) : IsKeyword(doc[i]) /\ IsKey(doc[i]))
        => request.genres =
            LabelsOf(SelectSeq(doc, IsAdjKey)) \o LabelsOf(SelectSeq(doc, IsNounKey))

\* C3 witness: a matching noun ahead of a matching adjective with another
\* label, so the resolved order differs from the input order
C3_Witness ==
    /\ request.kind = "recommend"
    /\ Len(doc) = 2
    /\ IsNounKey(doc[1])
    /\ IsAdjKey(doc[2])
    /\ GENRE_MAPPING[doc[1].text] # GENRE_MAPPING[doc[2].text]
    /\ request.genres = <<GENRE_MAPPING[doc[2].text], GENRE_MAPPING[doc[1].text]>>

\* C4: add_favorite for a username without a record answers 404 "User not
\* found" and leaves the collection as it was.
C4_AddFavoriteUnknownUser ==
    [][\A p \in Procs, username \in Usernames, anime \in Animes :
          (add_favorite_find(p, username, anime) /\ ~find_one(users, username).found)
              => /\ resp'[p] = Answer("add_favorite", username, 404, "User not found", NoDoc)
                 /\ pc'[p] = "idle"
                 /\ users' = users]_vars

\* C4 witness: add_favorite has answered 404 for a username that has no
\* record while another profile is stored
C4_Witness ==
    \E p \in Procs :
        /\ resp[p].op = "add_favorite"
        /\ resp[p].status = 404
        /\ ~find_one(users, resp[p].username).found
        /\ users # <<>>

\* C5: every add_favorite called for an existing user answers success, and the
\* user's persisted favorites are the entries of those calls in the order
\* they ran, so of two calls made one after the other both entries are there,
\* the first before the second.
C5_FavoritesInCallOrder ==
    /\ \A p \in Procs :
          (pc[p] = "idle" /\ resp[p].op = "add_favorite" /\ existed[p])
              => resp[p].status = 200
    /\ \A p \in Procs :
          pc[p] = "favorite_update" => existed[p] /\ find_one(users, call[p].username).found
    /\ \A u \in Usernames :
          find_one(users, u).found => find_one(users, u).doc.favorites = favLog[u]
    /\ \A u \in Usernames :
          ~find_one(users, u).found => favLog[u] = <<>>

\* C5 witness: two add_favorite calls for one user have run one after the
\* other with different entries, and nothing is in flight
C5_Witness ==
    \E u \in Usernames :
        /\ \A p \in Procs : pc[p] = "idle"
        /\ Len(favLog[u]) = 2
        /\ favLog[u][1] # favLog[u][2]
        /\ \E p \in Procs : resp[p].op = "add_favorite" /\ resp[p].status = 200

\* C6: every step of every store operation keeps each stored record in place
\* and leaves its favorites and watch_history a prefix of what they become.
C6_AppendOnly ==
    [][\A i \in 1..Len(users) :
          /\ i <= Len(users')
          /\ users'[i].username = users[i].username
          /\ IsPrefix(users[i].favorites, users'[i].favorites)
          /\ IsPrefix(users[i].watch_history, users'[i].watch_history)]_vars

\* C6 witness: a record that has taken an entry in its favorites and one in
\* its watch_history
C6_Witness ==
    \E i \in 1..Len(users) :
        /\ Len(users[i].favorites) >= 1
        /\ Len(users[i].watch_history) >= 1

\* a provider response that carries at least one media record
HasResults(r) ==
    /\ r.status_code = 200
    /\ In("data", r.body)
    /\ In("Page", r.body.f["data"])
    /\ In("media", r.body.f["data"].f["Page"])
    /\ Truthy(r.body.f["data"].f["Page"].f["media"])

\* C7: every empty or malformed provider response (non-200, or a body
\* without the data / Page / media structure, a null "data" included) ends in
\* the handler's 404, never in another error.
C7_MalformedIsNotFound ==
    (rpc = "done" /\ ~HasResults(response))
        => /\ result.status = 404
           /\ result.detail = IF request.kind = "recommend"
                              THEN "No recommendations found"
                              ELSE "No anime found matching that query"

\* C8: every adjective or noun whose lowercase form is a lexicon key puts
\* that key's label into the resolved genres.
C8_LowercasedLookup ==
    request.kind = "recommend"
        => \A i \in 1..Len(doc) :
              (IsKeyword(doc[i]) /\ Lower(doc[i].text) \in DOMAIN GENRE_MAPPING)
                  => \E j \in 1..Len(request.genres) :
                        request.genres[j] = GENRE_MAPPING[Lower(doc[i].text)]

\* C9: the phrase search_anime posts is the nouns of the input, in input
\* order, one space between them; with adjectives only it is empty.
C9_SearchPhraseFromNouns ==
    request.kind = "search"
        => /\ request.search = NounPhrase(doc)
           /\ (\A i \in 1..Len(doc) : IsAdj(doc[i])) => request.search = ""

\* C9 witness: a search posted for an adjective followed by a noun
C9_Witness ==
    /\ request.kind = "search"
    /\ Len(doc) = 2
    /\ IsAdj(doc[1])
    /\ IsNoun(doc[2])
    /\ request.search = doc[2].text

\* C10: the collection never holds two records with one username, and no two
\* create_user calls for one username have both answered success.
C10_UniqueUsernames ==
    /\ \A i, j \in 1..Len(users) : i # j => users[i].username # users[j].username
    /\ \A p, q \in Procs :
          (p # q /\ resp[p].op = "create_user" /\ resp[q].op = "create_user"
                 /\ resp[p].status = 200 /\ resp[q].status = 200)
              => resp[p].username # resp[q].username

====
